---------------------------- MODULE Spec2Model ----------------------------
(***************************************************************************)
(* FIFO realized-PNL engine of trading-pnl (src/main.py).                  *)
(*                                                                         *)
(* TradingOperations groups a batch of trade records by underlying         *)
(* (__init__), and its pnl property sums, over the groups, the proceeds    *)
(* of the first matched units sold minus the cost of the first matched     *)
(* units bought.                                                           *)
(*                                                                         *)
(* Prices are Decimal values in the source; they are modelled as integers  *)
(* (a fixed number of decimal places), on which Decimal addition and       *)
(* multiplication are exact as long as results stay below the 28           *)
(* significant digits of the default context.                              *)
(***************************************************************************)
EXTENDS Integers, Sequences, FiniteSets

\* ------------------------------------------------------------------ bounds
\* Longest input batch (and longest trade list handed to the first-N scan).
MaxLen == 3

\* Sample quantities, prices and instrument names of the inputs: a trade
\* that can be consumed whole or in part, and the prices and names of the tests.
Quantities == {1, 2}
Prices == {100, 110}
Underlyings == {"Oil", "Gas"}

\* ------------------------------------------------------------- data model
BUY == "Buy"
SELL == "Sell"
Direction == {BUY, SELL}

TradeOperation ==
    [direction : Direction, quantity : Quantities, price : Prices,
     underlying : Underlyings]

SeqsUpTo(S, n) == UNION {[1..k -> S] : k \in 0..n}

\* Every input batch within the bounds.
Batches == SeqsUpTo(TradeOperation, MaxLen)

VARIABLES
    trades_data,          \* the batch given to the constructor
    trades_by_underlying, \* the dict of groups, as its entries in insertion order
    pc,                   \* "new", "constructed", "queried", "requeried"; "call", "returned"
    result,               \* the value the last pnl query returned
    call_quantity,        \* direct call of the first-N scan: its target quantity
    call_trades,          \* direct call of the first-N scan: its trades
    call_outcome          \* direct call of the first-N scan: how it ended

vars == <<trades_data, trades_by_underlying, pc, result,
          call_quantity, call_trades, call_outcome>>

NoValue == "none"

\* --------------------------------------------------------------- grouping
\* The position of key u among the dict's entries, 0 when it has none.
KeyIndex(d, u) ==
    IF \E i \in 1..Len(d) : d[i].key = u
    THEN CHOOSE i \in 1..Len(d) : d[i].key = u
    ELSE 0

\* Variant of AppendTrade that keys every trade by the first key seen, so
\* that all trades land in one group.
AppendTradeMerged(d, t) ==
    IF d = <<>>
    THEN Append(d, [key |-> t.underlying, value |-> <<t>>])
    ELSE [d EXCEPT ![1].value = Append(@, t)]

\* Variant of AppendTrade that inserts the trade at the head of its group.
AppendTradeAtHead(d, t) ==
    LET i == KeyIndex(d, t.underlying) IN
    IF i = 0
    THEN Append(d, [key |-> t.underlying, value |-> <<t>>])
    ELSE [d EXCEPT ![i].value = <<t>> \o @]

\* self.trades_by_underlying[underlying].append(TradeOperation(**trades_operation)):
\* a missing key gets a fresh empty list (at the end of the dict), then the
\* trade is appended to the key's list.
AppendTrade(d, t) ==
    LET i == KeyIndex(d, t.underlying) IN
    IF i = 0
    THEN Append(d, [key |-> t.underlying, value |-> <<t>>])
    ELSE [d EXCEPT ![i].value = Append(@, t)]

\* The constructor's loop over trades_data, from the empty dict.
RECURSIVE GroupTrades(_)
GroupTrades(data) ==
    IF data = <<>>
    THEN <<>>
    ELSE AppendTrade(GroupTrades(SubSeq(data, 1, Len(data) - 1)), data[Len(data)])

\* ------------------------------------------------------------ first-N scan
\* The loop of __price_of_first_n_goods from trade i on, with the values of
\* its locals result and quantity; consumed counts the units whose price
\* has been added to result.
RECURSIVE ScanFrom(_, _, _, _, _)
ScanFrom(trades, i, quantity, res, consumed) ==
    IF i > Len(trades)
    THEN [result |-> res, quantity |-> quantity, consumed |-> consumed]
    ELSE LET t == trades[i] IN
         IF t.quantity <= quantity
         THEN ScanFrom(trades, i + 1, quantity - t.quantity,
                       res + t.quantity * t.price, consumed + t.quantity)
         ELSE [result |-> res + quantity * t.price, quantity |-> quantity,
               consumed |-> consumed + quantity]

\* Variant of the scan whose else branch adds the whole boundary trade.
RECURSIVE ScanFromWhole(_, _, _, _)
ScanFromWhole(trades, i, quantity, res) ==
    IF i > Len(trades)
    THEN res
    ELSE LET t == trades[i] IN
         IF t.quantity <= quantity
         THEN ScanFromWhole(trades, i + 1, quantity - t.quantity,
                            res + t.quantity * t.price)
         ELSE res + t.quantity * t.price

PriceOfFirstNGoodsWhole(quantity, trades) == ScanFromWhole(trades, 1, quantity, 0)

\* Variant of the scan without the break: it goes on after the boundary trade.
RECURSIVE ScanFromNoBreak(_, _, _, _)
ScanFromNoBreak(trades, i, quantity, res) ==
    IF i > Len(trades)
    THEN res
    ELSE LET t == trades[i] IN
         IF t.quantity <= quantity
         THEN ScanFromNoBreak(trades, i + 1, quantity - t.quantity,
                              res + t.quantity * t.price)
         ELSE ScanFromNoBreak(trades, i + 1, quantity, res + quantity * t.price)

PriceOfFirstNGoodsNoBreak(quantity, trades) == ScanFromNoBreak(trades, 1, quantity, 0)

\* Variant of the scan whose if branch multiplies the price by the remaining
\* target instead of the trade's quantity.
RECURSIVE ScanFromRemaining(_, _, _, _)
ScanFromRemaining(trades, i, quantity, res) ==
    IF i > Len(trades)
    THEN res
    ELSE LET t == trades[i] IN
         IF t.quantity <= quantity
         THEN ScanFromRemaining(trades, i + 1, quantity - t.quantity,
                                res + quantity * t.price)
         ELSE res + quantity * t.price

PriceOfFirstNGoodsRemaining(quantity, trades) ==
    ScanFromRemaining(trades, 1, quantity, 0)

PriceOfFirstNGoods(quantity, trades) == ScanFrom(trades, 1, quantity, 0, 0).result

\* The units the scan consumes: what it took off the target in its if
\* branch plus the remaining target it priced in its else branch.
ConsumedByScan(quantity, trades) == ScanFrom(trades, 1, quantity, 0, 0).consumed

\* A direct call: the function has no raise and no failing operation on
\* well-typed arguments, so it returns.
CallOutcome(quantity, trades) ==
    [kind |-> "return", value |-> PriceOfFirstNGoods(quantity, trades)]

\* ---------------------------------------------------------- per underlying
IsBuy(t) == t.direction = BUY
IsSell(t) == t.direction = SELL

BuyTrades(trades) == SelectSeq(trades, IsBuy)
SellTrades(trades) == SelectSeq(trades, IsSell)

\* sum(t.quantity for t in trades)
RECURSIVE SumQuantity(_)
SumQuantity(trades) ==
    IF trades = <<>> THEN 0 ELSE trades[1].quantity + SumQuantity(Tail(trades))

Min(a, b) == IF a <= b THEN a ELSE b
Max(a, b) == IF a >= b THEN a ELSE b

\* Variant of MatchedQuantity that takes the larger total.
MatchedQuantityMax(buy_trades, sell_trades) ==
    Max(SumQuantity(buy_trades), SumQuantity(sell_trades))

\* quantity = min(buy_quantity, sell_quantity)
MatchedQuantity(buy_trades, sell_trades) ==
    Min(SumQuantity(buy_trades), SumQuantity(sell_trades))

\* sum of quantity * price over the trades
RECURSIVE TotalValue(_)
TotalValue(trades) ==
    IF trades = <<>>
    THEN 0
    ELSE trades[1].quantity * trades[1].price + TotalValue(Tail(trades))

\* Variant of UnderlyingPnl that returns the net cash flow of all trades.
UnderlyingPnlCashFlow(trades) ==
    TotalValue(SellTrades(trades)) - TotalValue(BuyTrades(trades))

\* Variant of UnderlyingPnl that ignores the sells entered before the first buy.
UnderlyingPnlLongOnly(trades) ==
    LET first_buy == IF \E i \in 1..Len(trades) : IsBuy(trades[i])
                     THEN CHOOSE i \in 1..Len(trades) :
                              /\ IsBuy(trades[i])
                              /\ \A j \in 1..(i - 1) : ~IsBuy(trades[j])
                     ELSE Len(trades) + 1
        buy_trades == BuyTrades(trades)
        sell_trades == SellTrades(SubSeq(trades, first_buy, Len(trades)))
    IN  IF buy_trades = <<>> \/ sell_trades = <<>>
        THEN 0
        ELSE LET quantity == MatchedQuantity(buy_trades, sell_trades)
             IN  PriceOfFirstNGoods(quantity, sell_trades)
                 - PriceOfFirstNGoods(quantity, buy_trades)

UnderlyingPnl(trades) ==
    LET buy_trades == BuyTrades(trades)
        sell_trades == SellTrades(trades)
    IN  IF buy_trades = <<>> \/ sell_trades = <<>>
        THEN 0
        ELSE LET quantity == MatchedQuantity(buy_trades, sell_trades)
                 total_buy_prices == PriceOfFirstNGoods(quantity, buy_trades)
                 total_sell_prices == PriceOfFirstNGoods(quantity, sell_trades)
             IN  total_sell_prices - total_buy_prices

\* ------------------------------------------------------------------ total
\* Variant of Pnl that nets all the groups' trades as if they were one group.
RECURSIVE Flatten(_)
Flatten(d) ==
    IF d = <<>> THEN <<>> ELSE Flatten(SubSeq(d, 1, Len(d) - 1)) \o d[Len(d)].value

PnlNetted(d) == UnderlyingPnl(Flatten(d))

\* The loop of pnl over trades_by_underlying.values(), in the dict's order.
RECURSIVE Pnl(_)
Pnl(d) ==
    IF d = <<>>
    THEN 0
    ELSE Pnl(SubSeq(d, 1, Len(d) - 1)) + UnderlyingPnl(d[Len(d)].value)

\* ---------------------------------------------------------------- actions
Init ==
    /\ trades_data \in Batches
    /\ trades_by_underlying = <<>>
    /\ pc = "new"
    /\ result = NoValue
    /\ call_quantity = 0
    /\ call_trades = <<>>
    /\ call_outcome = NoValue

\* TradingOperations(trades_data)
Construct ==
    /\ pc = "new"
    /\ trades_by_underlying' = GroupTrades(trades_data)
    /\ pc' = "constructed"
    /\ UNCHANGED <<trades_data, result, call_quantity, call_trades, call_outcome>>

\* Variant of PnlQuery that empties the groups it has evaluated.
PnlQueryConsuming ==
    /\ pc \in {"constructed", "queried", "requeried"}
    /\ result' = Pnl(trades_by_underlying)
    /\ trades_by_underlying' =
           [i \in 1..Len(trades_by_underlying) |->
               [key |-> trades_by_underlying[i].key, value |-> <<>>]]
    /\ pc' = IF pc = "constructed" THEN "queried" ELSE "requeried"
    /\ UNCHANGED <<trades_data, call_quantity, call_trades, call_outcome>>

\* trader.pnl
PnlQuery ==
    /\ pc \in {"constructed", "queried", "requeried"}
    /\ result' = Pnl(trades_by_underlying)
    /\ pc' = IF pc = "constructed" THEN "queried" ELSE "requeried"
    /\ UNCHANGED <<trades_data, trades_by_underlying,
                   call_quantity, call_trades, call_outcome>>

Next == Construct \/ PnlQuery

Spec == Init /\ [][Next]_vars

\* ------------------------------------- the first-N scan called on its own
\* Trade lists of one side, and targets up to one more than they can hold.
SideTrades == {t \in TradeOperation : t.direction = BUY /\ t.underlying = "Oil"}
MaxTarget == MaxLen * (CHOOSE q \in Quantities : \A r \in Quantities : r <= q) + 1

InitScan ==
    /\ call_quantity \in 0..MaxTarget
    /\ call_trades \in SeqsUpTo(SideTrades, MaxLen)
    /\ call_outcome = NoValue
    /\ pc = "call"
    /\ trades_data = <<>>
    /\ trades_by_underlying = <<>>
    /\ result = NoValue

\* TradingOperations.__price_of_first_n_goods(call_quantity, call_trades)
CallPriceOfFirstNGoods ==
    /\ pc = "call"
    /\ call_outcome' = CallOutcome(call_quantity, call_trades)
    /\ pc' = "returned"
    /\ UNCHANGED <<trades_data, trades_by_underlying, result,
                   call_quantity, call_trades>>

NextScan == CallPriceOfFirstNGoods

SpecScan == InitScan /\ [][NextScan]_vars


\* ------------------------------------------------------- reference notions
\* The first query has returned (C8 carries its value to the later ones).
Queried == pc = "queried"

\* The trades of underlying u in a batch, in the batch's order.
SubBatch(batch, u) ==
    LET OfU(t) == t.underlying = u IN SelectSeq(batch, OfU)

\* The trades of the other underlyings, in the batch's order.
WithoutUnderlying(batch, u) ==
    LET NotOfU(t) == t.underlying # u IN SelectSeq(batch, NotOfU)

UnderlyingsOf(batch) == {batch[k].underlying : k \in 1..Len(batch)}

\* The value pnl returns on an instance constructed from the batch.
PnlOfBatch(batch) == Pnl(GroupTrades(batch))

\* One price per unit: a trade of quantity q at price p gives q units of price p.
RECURSIVE Units(_)
Units(trades) ==
    IF trades = <<>>
    THEN <<>>
    ELSE [k \in 1..trades[1].quantity |-> trades[1].price] \o Units(Tail(trades))

\* Sum over k = 1..m of (k-th sold unit - k-th bought unit).
RECURSIVE PairedUnits(_, _, _)
PairedUnits(sold, bought, m) ==
    IF m = 0 THEN 0 ELSE PairedUnits(sold, bought, m - 1) + (sold[m] - bought[m])

FifoReference(trades) ==
    LET bought == Units(BuyTrades(trades))
        sold == Units(SellTrades(trades))
    IN  PairedUnits(sold, bought, Min(Len(bought), Len(sold)))

TwoSided(trades) == BuyTrades(trades) # <<>> /\ SellTrades(trades) # <<>>

Groups == {trades_by_underlying[i].value : i \in 1..Len(trades_by_underlying)}

\* The permutations of 1..n, for every batch length within the bounds.
PermsOf ==
    [n \in 0..MaxLen |->
        {f \in [1..n -> 1..n] : \A a, b \in 1..n : f[a] = f[b] => a = b}]

Permuted(batch, f) == [k \in 1..Len(batch) |-> batch[f[k]]]

\* ------------------------------------------------------------------ claims
\* The sum of the FIFO references of the two-sided groups of a dict.
RECURSIVE SumOfReferences(_)
SumOfReferences(d) ==
    IF d = <<>>
    THEN 0
    ELSE (IF TwoSided(d[1].value) THEN FifoReference(d[1].value) ELSE 0)
         + SumOfReferences(Tail(d))

\* C1: for every underlying with at least one BUY and at least one SELL, the
\* PNL computed by underlying_pnl equals the unit-by-unit FIFO reference: the
\* sum over the first min(total bought, total sold) units of (price of the
\* k-th sold unit - price of the k-th bought unit); the queried total is the
\* sum of these over the two-sided groups.
C1_FifoReference ==
    Queried =>
        /\ \A g \in Groups : TwoSided(g) => UnderlyingPnl(g) = FifoReference(g)
        /\ result = SumOfReferences(trades_by_underlying)

\* A three-trade underlying with unequal totals, a boundary trade consumed in
\* part, and a non-zero PNL.
C1_Witness ==
    /\ pc = "queried"
    /\ \E g \in Groups :
          /\ TwoSided(g)
          /\ Len(g) = 3
          /\ SumQuantity(BuyTrades(g)) > SumQuantity(SellTrades(g))
          /\ Len(BuyTrades(g)) = 2
          /\ BuyTrades(g)[1].quantity < SumQuantity(SellTrades(g))
          /\ BuyTrades(g)[1].price # BuyTrades(g)[2].price
          /\ UnderlyingPnl(g) # 0
          /\ result = UnderlyingPnl(g)

\* C2: an underlying whose trades are all BUY or all SELL contributes exactly
\* 0 to the value pnl returns: its own PNL is 0 and the total equals the
\* total of the batch without that underlying's trades.
C2_SingleSidedIsZero ==
    Queried =>
        \A i \in 1..Len(trades_by_underlying) :
            LET e == trades_by_underlying[i] IN
            ~TwoSided(e.value) =>
                /\ UnderlyingPnl(e.value) = 0
                /\ result = PnlOfBatch(WithoutUnderlying(trades_data, e.key))

\* A single-sided underlying beside a two-sided one with a non-zero PNL.
C2_Witness ==
    /\ pc = "queried"
    /\ result # 0
    /\ \E g \in Groups : ~TwoSided(g) /\ Len(g) >= 1 /\ TotalValue(g) > 0
    /\ \E g \in Groups : TwoSided(g)

\* The sum over the underlyings us of the pnl of each one's sub-batch.
RECURSIVE SumOfSubBatchPnl(_, _)
SumOfSubBatchPnl(batch, us) ==
    IF us = {}
    THEN 0
    ELSE LET u == CHOOSE x \in us : TRUE
         IN  PnlOfBatch(SubBatch(batch, u)) + SumOfSubBatchPnl(batch, us \ {u})

C3_WitnessEmpty == pc = "queried" /\ trades_data = <<>> /\ result = 0

\* An underlying's total bought and sold quantities, and its larger side.
BuyQuantity(batch, u) == SumQuantity(BuyTrades(SubBatch(batch, u)))
SellQuantity(batch, u) == SumQuantity(SellTrades(SubBatch(batch, u)))
LargerSide(batch, u) ==
    IF BuyQuantity(batch, u) > SellQuantity(batch, u) THEN BUY ELSE SELL

\* The units of trade j's own side and underlying entered before trade j.
UnitsBefore(batch, j) ==
    LET SameSide(t) == /\ t.underlying = batch[j].underlying
                       /\ t.direction = batch[j].direction
    IN  SumQuantity(SelectSeq(SubSeq(batch, 1, j - 1), SameSide))

\* Trade j lies entirely after the matched units of the larger side.
InExcess(batch, j) ==
    LET u == batch[j].underlying IN
    /\ BuyQuantity(batch, u) # SellQuantity(batch, u)
    /\ batch[j].direction = LargerSide(batch, u)
    /\ UnitsBefore(batch, j) >= Min(BuyQuantity(batch, u), SellQuantity(batch, u))

\* The first m units of a side holding more than m units: the whole trades
\* before the boundary trade, and (m - their units) units of the boundary trade.
BoundaryReference(m, side) ==
    LET k == CHOOSE k \in 1..Len(side) :
                 /\ SumQuantity(SubSeq(side, 1, k - 1)) <= m
                 /\ m < SumQuantity(SubSeq(side, 1, k))
    IN  TotalValue(SubSeq(side, 1, k - 1))
        + (m - SumQuantity(SubSeq(side, 1, k - 1))) * side[k].price

\* C4: when an underlying's total buy and total sell quantities differ, the
\* excess of the larger side is left out: the boundary trade counts only for
\* (remaining matched quantity x its price), and changing the quantity or
\* price of a trade lying entirely after the first matched units of the
\* larger side, or appending a trade to the tail of that side, leaves pnl
\* unchanged.
C4_ExcessExcluded ==
    Queried =>
        /\ \A j \in 1..Len(trades_data) :
              InExcess(trades_data, j) =>
                  \A q \in Quantities, p \in Prices :
                      PnlOfBatch([trades_data EXCEPT ![j].quantity = q,
                                                     ![j].price = p]) = result
        /\ \A u \in UnderlyingsOf(trades_data) :
              BuyQuantity(trades_data, u) # SellQuantity(trades_data, u) =>
                  /\ \A q \in Quantities, p \in Prices :
                        PnlOfBatch(Append(trades_data,
                            [direction |-> LargerSide(trades_data, u),
                             quantity |-> q, price |-> p, underlying |-> u]))
                        = result
                  /\ LET g == SubBatch(trades_data, u)
                         m == Min(BuyQuantity(trades_data, u),
                                  SellQuantity(trades_data, u))
                     IN  UnderlyingPnl(g) =
                             IF LargerSide(trades_data, u) = BUY
                             THEN TotalValue(SellTrades(g))
                                  - BoundaryReference(m, BuyTrades(g))
                             ELSE BoundaryReference(m, SellTrades(g))
                                  - TotalValue(BuyTrades(g))

\* A two-sided underlying whose larger side ends with a trade wholly in excess.
C4_Witness ==
    /\ pc = "queried"
    /\ result # 0
    /\ \E j \in 1..Len(trades_data) :
          /\ InExcess(trades_data, j)
          /\ TwoSided(SubBatch(trades_data, trades_data[j].underlying))

\* A boundary trade of the larger side consumed in part.
C4_WitnessBoundary ==
    /\ pc = "queried"
    /\ result # 0
    /\ \E g \in Groups :
          /\ TwoSided(g)
          /\ SumQuantity(SellTrades(g)) > SumQuantity(BuyTrades(g))
          /\ SellTrades(g)[1].quantity > SumQuantity(BuyTrades(g))

\* C5: for every underlying with both sides present, the first-N scan
\* consumes exactly min(total buy quantity, total sell quantity) units on the
\* buy side and on the sell side: never more than a side holds, the same on
\* both sides, and none of the target is left unconsumed.
C5_ConsumedIsMatched ==
    Queried =>
        \A g \in Groups :
            TwoSided(g) =>
                LET buy_trades == BuyTrades(g)
                    sell_trades == SellTrades(g)
                    quantity == MatchedQuantity(buy_trades, sell_trades)
                IN  /\ ConsumedByScan(quantity, buy_trades)
                         = Min(SumQuantity(buy_trades), SumQuantity(sell_trades))
                    /\ ConsumedByScan(quantity, sell_trades)
                         = Min(SumQuantity(buy_trades), SumQuantity(sell_trades))
                    /\ ConsumedByScan(quantity, buy_trades) = quantity
                    /\ ConsumedByScan(quantity, buy_trades) <= SumQuantity(buy_trades)
                    /\ ConsumedByScan(quantity, sell_trades) <= SumQuantity(sell_trades)

\* A two-sided underlying with unequal totals, the larger side in two trades.
C5_Witness ==
    /\ pc = "queried"
    /\ \E g \in Groups :
          /\ TwoSided(g)
          /\ Len(g) = 3
          /\ SumQuantity(BuyTrades(g)) # SumQuantity(SellTrades(g))

\* Permuted(batch, f) lists the trades of every underlying in the order
\* the batch lists them.
KeepsOrderPerUnderlying(batch, f) ==
    \A a \in 1..Len(batch) : \A b \in (a + 1)..Len(batch) :
        batch[f[a]].underlying = batch[f[b]].underlying => f[a] < f[b]

\* C6: two batches that are permutations of each other, and in which every
\* underlying's trades keep their relative order, have the same pnl.
C6_InterleavingIrrelevant ==
    Queried =>
        \A f \in PermsOf[Len(trades_data)] :
            KeepsOrderPerUnderlying(trades_data, f) =>
                PnlOfBatch(Permuted(trades_data, f)) = result

\* A batch with a two-sided underlying around a trade of another underlying:
\* it has a different batch with the same per-underlying order.
C6_Witness ==
    /\ pc = "queried"
    /\ result # 0
    /\ Len(trades_data) = 3
    /\ trades_data[1].underlying = trades_data[3].underlying
    /\ trades_data[2].underlying # trades_data[1].underlying
    /\ \E f \in PermsOf[3] :
          /\ Permuted(trades_data, f) # trades_data
          /\ KeepsOrderPerUnderlying(trades_data, f)
          /\ \A u \in Underlyings :
                SubBatch(Permuted(trades_data, f), u) = SubBatch(trades_data, u)

\* The number of trades the groups hold together.
RECURSIVE GroupedCount(_)
GroupedCount(d) ==
    IF d = <<>> THEN 0 ELSE Len(d[1].value) + GroupedCount(Tail(d))

\* C7: after construction, trades_by_underlying has exactly one group per
\* distinct underlying of the batch, each group is exactly the batch's trades
\* of its underlying, unchanged and in the batch's order, and the groups
\* together hold as many trades as the batch.
C7_GroupsPartitionBatch ==
    pc \in {"constructed", "queried", "requeried"} =>
        LET d == trades_by_underlying IN
        /\ \A i, j \in 1..Len(d) : d[i].key = d[j].key => i = j
        /\ {d[i].key : i \in 1..Len(d)} = UnderlyingsOf(trades_data)
        /\ \A i \in 1..Len(d) : d[i].value = SubBatch(trades_data, d[i].key)
        /\ GroupedCount(d) = Len(trades_data)

\* Two groups built from an interleaved batch, one holding two different trades.
C7_Witness ==
    /\ pc = "constructed"
    /\ Len(trades_by_underlying) = 2
    /\ trades_data[2].underlying # trades_data[1].underlying
    /\ \E i \in 1..2 :
          /\ Len(trades_by_underlying[i].value) = 2
          /\ trades_by_underlying[i].value[1] # trades_by_underlying[i].value[2]
          /\ trades_by_underlying[i].value = <<trades_data[1], trades_data[3]>>

\* C8: every pnl query leaves the trade groups as they were, and a query
\* that follows another returns the same value.
C8_QueriesRepeatable ==
    [][pc' \in {"queried", "requeried"} =>
          /\ trades_by_underlying' = trades_by_underlying
          /\ pc \in {"queried", "requeried"} => result' = result]_vars

\* A second query has returned, on an instance with a non-zero pnl.
C8_Witness ==
    /\ pc = "requeried"
    /\ result # 0
    /\ trades_by_underlying = GroupTrades(trades_data)

\* C9, as claimed: called with a target quantity greater than the sum of the
\* quantities of its trades, price_of_first_n_goods signals an error instead
\* of returning a value.
C9_GuardsPrecondition ==
    (pc = "returned" /\ call_quantity > SumQuantity(call_trades)) =>
        call_outcome.kind = "raise"

\* C9, as the code has it: called with a target quantity greater than the
\* sum of the quantities of its trades, price_of_first_n_goods returns the
\* value (quantity x price) of all its trades and signals nothing.
C9_ReturnsTotalValue ==
    (pc = "returned" /\ call_quantity > SumQuantity(call_trades)) =>
        call_outcome = [kind |-> "return", value |-> TotalValue(call_trades)]

\* A call with two trades and a target beyond their units has returned.
C9_Witness ==
    /\ pc = "returned"
    /\ Len(call_trades) = 2
    /\ call_trades[1].quantity # call_trades[2].quantity
    /\ call_quantity > SumQuantity(call_trades)
    /\ call_outcome.kind = "return"

\* Permuted(batch, f) leaves the trades of the other underlyings in place
\* and lists the buys of u, and the sells of u, in the order the batch does.
ReordersWithin(batch, f, u) ==
    /\ \A k \in 1..Len(batch) : batch[k].underlying # u => f[k] = k
    /\ \A a \in 1..Len(batch) : \A b \in (a + 1)..Len(batch) :
          (/\ batch[f[a]].underlying = u
           /\ batch[f[b]].underlying = u
           /\ batch[f[a]].direction = batch[f[b]].direction) => f[a] < f[b]

\* C10: within one underlying the PNL depends only on the order among its
\* buys and the order among its sells: reordering that underlying's trades
\* (the other trades staying in place) so that its buys keep their relative
\* order and its sells keep theirs, as by moving every sell ahead of every
\* buy, leaves that underlying's PNL and the total unchanged.
C10_BuySellInterleavingIrrelevant ==
    Queried =>
        /\ \A g \in Groups :
              UnderlyingPnl(SellTrades(g) \o BuyTrades(g)) = UnderlyingPnl(g)
        /\ \A u \in UnderlyingsOf(trades_data) :
              \A f \in PermsOf[Len(trades_data)] :
                  ReordersWithin(trades_data, f, u) =>
                      LET other == Permuted(trades_data, f) IN
                      /\ UnderlyingPnl(SubBatch(other, u))
                           = UnderlyingPnl(SubBatch(trades_data, u))
                      /\ PnlOfBatch(other) = result

\* An underlying whose first trade is a sell entered before its buys, with a
\* non-zero PNL.
C10_Witness ==
    /\ pc = "queried"
    /\ result # 0
    /\ \E g \in Groups :
          /\ Len(g) = 3
          /\ IsSell(g[1])
          /\ IsBuy(g[2])
          /\ g # SellTrades(g) \o BuyTrades(g)

=============================================================================
